---- MODULE Spec2Model ----
(***************************************************************************)
(* Session orchestrator of the RustSSH front end (src/js/app.js, class     *)
(* App): the registry of sessions, the active-session pointer, the         *)
(* per-session terminal and container, and the asynchronous closeSession   *)
(* with its await on the backend's ssh_disconnect; then the status bar,     *)
(* the ssh-error and ssh-data listeners, the outcome of connect, and the   *)
(* shared file manager (class FileManager) with its per-session snapshots. *)
(*                                                                         *)
(* The page is followed in parts.  Every specification follows the session *)
(* state (registry, active pointer, terminals, containers, tab strip).     *)
(* The variable scope, fixed by the initial predicate, names what else a   *)
(* specification follows; what it does not follow keeps its initial value. *)
(*   Spec, FairSpec   "sessions"   the session state alone                 *)
(*   SurfaceSpec      "sessions"   with changes of the window's size and   *)
(*                                 the terminals they refit                *)
(*   EventSpec        "events"     and the status bar, connect's outcome   *)
(*   DataSpec         "data"       and what is written to the terminals    *)
(*   FileSpec         "files"      and the file manager's listing, its     *)
(*                                 suspended loadDirectory and             *)
(*                                 loadInitialFiles calls                  *)
(*   ListingSpec      "listing"    and the file manager's listing and its  *)
(*                                 suspended loadDirectory calls, without  *)
(*                                 the loadInitialFiles calls              *)
(*   InputSpec        "input"      and the terminals' suspended onData and *)
(*                                 onResize callbacks                      *)
(* SplitSpec follows the sidebar's resize handle (src/js/splitpane.js)     *)
(* alone, and PermSpec the permission dialog of the file manager.          *)
(*                                                                         *)
(* A state of the model is a state of the page between two handlers: the   *)
(* JavaScript event loop runs each handler, and each continuation after an *)
(* await, to completion before the next one starts.                        *)
(***************************************************************************)
EXTENDS Bags, FiniteSets, Integers, Sequences, TLC

\* ------------------------------------------------------------------ bounds
\* Number of sessions the backend ever hands out (each sessionId is fresh).
MaxSessions == 3
\* Number of closeSession calls awaiting ssh_disconnect at the same time.
MaxInFlight == 2
\* The same two bounds for the specifications that follow more of the page.
EventSessions == 2
EventInFlight == 2
\* The number of ssh-data chunks that reach a terminal.
MaxData == 2
\* The bounds of the specification that follows the file manager: sessions,
\* closeSession calls in flight, loadDirectory calls suspended at the same time.
FileSessions == 2
FileInFlight == 1
MaxFetch == 1
\* The bounds of the specification that follows the directory fetches alone:
\* sessions, closeSession calls in flight, loadDirectory calls suspended at
\* the same time.
ListSessions == 1
ListInFlight == 1
MaxList == 2
\* The sidebar's min-width and max-width in pixels, which the style sheet
\* sets, and the largest clientX of a mouse event.
MinWidth == 2
MaxWidth == 4
MaxX == 5
\* The largest digit typed into the octal field of the permission dialog.
MaxDigit == 8
\* The bounds of the specification that follows the terminals' input:
\* sessions, closeSession calls in flight, onData and onResize callbacks
\* suspended at the same time.
InputSessions == 2
InputInFlight == 1
MaxInput == 1

\* ------------------------------------------------------------ value spaces
Null == 0
Ids == 1..MaxSessions
\* Remote directories: the root and the home directory below it.
HomeDir == "/home"
Paths == {"/", HomeDir}
\* FileManager.files when no listing is held.
NoFiles == [sid |-> Null, path |-> ""]
\* Error texts the backend can report.
Errors == {"e1", "e2"}

VARIABLES
    sessions,           \* App.sessions: sequence of session ids, tab order
    currentSessionId,   \* App.currentSessionId (Null = null)
    created,            \* how many session ids the backend has handed out
    terminal,           \* terminal[id]: session.terminalManager.terminal is non-null
    mounted,            \* mounted[id]: session.container is in the document
    display,            \* display[id]: session.container.style.display
    fileManagerState,   \* fileManagerState[id]: session.fileManagerState.path
    currentPath,        \* FileManager.currentPath
    placeholder,        \* #terminal-placeholder style.display
    terminalsContainer, \* #terminals-container style.display
    disBtnDisabled,     \* #btn-disconnect disabled
    tabs,               \* the tab strip last rendered by updateTabsUI
    pendingClose,       \* bag of closeSession calls suspended at the await
    connecting,         \* number of connect calls suspended at ssh_connect
    last,               \* the handler or continuation that ran last
    scope,              \* the part of the page the specification follows
    status,             \* the status bar: setStatus(status, message)
    returned,           \* how the promise of the last finished connect settled
    written,            \* written[id]: the chunks passed to id's terminal.write
    files,              \* FileManager.files: the session and path of the listing held
    pendingFetch,       \* bag of loadDirectory calls suspended at an await
    pendingHome,        \* sessions whose loadInitialFiles awaits sftp_get_home
    captured,           \* captured[id]: currentPath when id was last deactivated
    pendingInput,       \* bag of onData and onResize callbacks suspended at an await
    splitPane,          \* initSplitPane's isResizing, startX, startWidth; the sidebar's width
    perm                \* the permission dialog: octal field, checkboxes, preview

vars == <<sessions, currentSessionId, created, terminal, mounted, display,
          fileManagerState, currentPath, placeholder, terminalsContainer,
          disBtnDisabled, tabs, pendingClose, connecting, last,
          scope, status, returned, written,
          files, pendingFetch, pendingHome, captured, pendingInput,
          splitPane, perm>>

\* ------------------------------------------------------------- page state
\* The fields a handler reads and writes, as one record.
Page ==
    [sessions |-> sessions, currentSessionId |-> currentSessionId,
     terminal |-> terminal, mounted |-> mounted, display |-> display,
     fileManagerState |-> fileManagerState, currentPath |-> currentPath,
     placeholder |-> placeholder, terminalsContainer |-> terminalsContainer,
     disBtnDisabled |-> disBtnDisabled, tabs |-> tabs, threw |-> FALSE,
     fit |-> {}, focus |-> Null,
     status |-> status, returned |-> returned, written |-> written,
     files |-> files, pendingFetch |-> pendingFetch,
     pendingHome |-> pendingHome, pendingInput |-> pendingInput]

\* What a specification of scope sc follows besides the session state.
Follows(sc, part) ==
    \/ sc = "events" /\ part \in {"status", "returned"}
    \/ sc = "data" /\ part = "written"
    \/ sc = "files" /\ part = "files"
    \/ sc = "listing" /\ part = "listing"
    \/ sc = "input" /\ part = "input"

Commit(s) ==
    /\ scope' = scope
    /\ splitPane' = splitPane
    /\ perm' = perm
    /\ status' = (IF Follows(scope, "status") THEN s.status ELSE status)
    /\ returned' = (IF Follows(scope, "returned") THEN s.returned ELSE returned)
    /\ written' = (IF Follows(scope, "written") THEN s.written ELSE written)
    /\ IF Follows(scope, "files")
       THEN /\ BagCardinality(s.pendingFetch) <= MaxFetch
            /\ files' = s.files
            /\ pendingFetch' = s.pendingFetch
            /\ pendingHome' = s.pendingHome
            /\ captured' = [i \in Ids |->
                               IF currentSessionId = i /\ s.currentSessionId # i
                               THEN currentPath
                               ELSE captured[i]]
       ELSE IF Follows(scope, "listing")
            THEN /\ BagCardinality(s.pendingFetch) <= MaxList
                 /\ files' = s.files
                 /\ pendingFetch' = s.pendingFetch
                 /\ UNCHANGED <<pendingHome, captured>>
            ELSE UNCHANGED <<files, pendingFetch, pendingHome, captured>>
    /\ IF Follows(scope, "input")
       THEN /\ BagCardinality(s.pendingInput) <= MaxInput
            /\ pendingInput' = s.pendingInput
       ELSE UNCHANGED pendingInput
    /\ sessions' = s.sessions
    /\ currentSessionId' = s.currentSessionId
    /\ terminal' = s.terminal
    /\ mounted' = s.mounted
    /\ display' = s.display
    /\ fileManagerState' = s.fileManagerState
    /\ currentPath' = s.currentPath
    /\ placeholder' = s.placeholder
    /\ terminalsContainer' = s.terminalsContainer
    /\ disBtnDisabled' = s.disBtnDisabled
    /\ tabs' = s.tabs

pageVars == <<sessions, currentSessionId, terminal, mounted, display,
              fileManagerState, currentPath, placeholder, terminalsContainer,
              disBtnDisabled, tabs>>

\* The page outside the session state, and the scope.
restVars == <<scope, status, returned, written,
              files, pendingFetch, pendingHome, captured, pendingInput,
              splitPane, perm>>

\* ---------------------------------------------------------- array helpers
Max(a, b) == IF a >= b THEN a ELSE b

InRegistry(seq, id) == \E k \in 1..Len(seq) : seq[k] = id

\* Array.prototype.findIndex(s => s.id === id): 0-based, -1 when absent.
FindIndex(seq, id) ==
    IF InRegistry(seq, id)
    THEN (CHOOSE k \in 1..Len(seq) :
              seq[k] = id /\ \A j \in 1..(k - 1) : seq[j] # id) - 1
    ELSE -1

\* Removal as it would be if the last element were moved into the hole.
Splice_SwapRemove(seq, i) ==
    IF i < Len(seq)
    THEN [k \in 1..(Len(seq) - 1) |-> IF k = i + 1 THEN seq[Len(seq)] ELSE seq[k]]
    ELSE seq

\* Array.prototype.splice(i, 1) for i >= 0: removes the element at 0-based
\* position i, and removes nothing when i is past the end.
Splice(seq, i) ==
    IF i < Len(seq)
    THEN [k \in 1..(Len(seq) - 1) |-> IF k <= i THEN seq[k] ELSE seq[k + 1]]
    ELSE seq

\* -------------------------------------------------------------- split pane
Min(a, b) == IF a <= b THEN a ELSE b

\* initSplitPane(): the closure variables as declared, beside a sidebar of
\* the given width.
initSplitPane(width) ==
    [isResizing |-> FALSE, startX |-> 0, startWidth |-> 0, width |-> width]

\* The mousedown listener of the resize handle.
mousedown(p, clientX) ==
    [p EXCEPT !.isResizing = TRUE, !.startX = clientX, !.startWidth = p.width]

\* The mousemove listener as it would be without the lower limit.
mousemove_NoMin(p, clientX) ==
    IF ~p.isResizing
    THEN p
    ELSE [p EXCEPT !.width = Min(p.startWidth + (clientX - p.startX), MaxWidth)]

\* The mousemove listener of the document.
mousemove(p, clientX) ==
    IF ~p.isResizing
    THEN p
    ELSE LET diff == clientX - p.startX
             newWidth == Min(Max(p.startWidth + diff, MinWidth), MaxWidth)
         IN  [p EXCEPT !.width = newWidth]

\* The mouseup listener of the document.
mouseup(p) ==
    IF ~p.isResizing
    THEN p
    ELSE [p EXCEPT !.isResizing = FALSE]

\* ------------------------------------------------------ permission dialog
\* A string of digits is the sequence of its digits; the characters the
\* octal field can hold here are the digits 0..MaxDigit.
\* String.padStart(3, '0')
padStart(str) ==
    IF Len(str) >= 3
    THEN str
    ELSE [k \in 1..3 |-> IF k <= 3 - Len(str) THEN 0 ELSE str[k - (3 - Len(str))]]

\* Number.toString(): the decimal digits, without leading zeros.
RECURSIVE toString(_)
toString(n) ==
    IF n < 10 THEN <<n>> ELSE Append(toString(n \div 10), n % 10)

\* Array.slice(-3)
slice3(digits) == SubSeq(digits, Len(digits) - 2, Len(digits))

\* n & bit is not zero, for bit a power of two.
BitSet(n, bit) == (n \div bit) % 2 = 1

\* rwx(n) of updatePermPreview
rwx(n) ==
    <<IF BitSet(n, 4) THEN "r" ELSE "-",
      IF BitSet(n, 2) THEN "w" ELSE "-",
      IF BitSet(n, 1) THEN "x" ELSE "-">>

\* FileManager.updatePermPreview(octalStr)
updatePermPreview(p, octalStr) ==
    LET digits == padStart(octalStr)
    IN  IF Len(digits) < 3
        THEN p
        ELSE LET d == slice3(digits)
             IN  [p EXCEPT !.preview = rwx(d[1]) \o rwx(d[2]) \o rwx(d[3])]

\* syncPermChecksToOctal as it would be without padStart.
syncPermChecksToOctal_NoPad(p) ==
    LET weight == <<400, 200, 100, 40, 20, 10, 4, 2, 1>>
        Sum[k \in 0..9] ==
            IF k = 0 THEN 0
            ELSE Sum[k - 1] + (IF p.checks[k] THEN weight[k] ELSE 0)
        octalStr == toString(Sum[9])
    IN  updatePermPreview([p EXCEPT !.octal = octalStr], octalStr)

\* FileManager.syncPermChecksToOctal().  checks[1..9] are the checkboxes
\* owner r, w, x, group r, w, x, other r, w, x.
syncPermChecksToOctal(p) ==
    LET weight == <<400, 200, 100, 40, 20, 10, 4, 2, 1>>
        Sum[k \in 0..9] ==
            IF k = 0 THEN 0
            ELSE Sum[k - 1] + (IF p.checks[k] THEN weight[k] ELSE 0)
        octalStr == padStart(toString(Sum[9]))
    IN  updatePermPreview([p EXCEPT !.octal = octalStr], octalStr)

\* FileManager.syncOctalToPermChecks(octalStr)
syncOctalToPermChecks(p, octalStr) ==
    LET digits == padStart(octalStr)
    IN  IF Len(digits) < 3 \/ \E k \in 1..Len(digits) : digits[k] > 7
        THEN p
        ELSE LET d == slice3(digits)
                 p1 == [p EXCEPT !.checks =
                           <<BitSet(d[1], 4), BitSet(d[1], 2), BitSet(d[1], 1),
                             BitSet(d[2], 4), BitSet(d[2], 2), BitSet(d[2], 1),
                             BitSet(d[3], 4), BitSet(d[3], 2), BitSet(d[3], 1)>>]
             IN  updatePermPreview(p1, octalStr)

\* FileManager.showPermissionsModal(file): the dialog as opened for a file of
\* the given mode, given as the digits of (mode & 0o777).toString(8).
showPermissionsModal(modeDigits) ==
    LET octalStr == padStart(modeDigits)
        p0 == [octal |-> octalStr,
               checks |-> [k \in 1..9 |-> FALSE],
               preview |-> <<>>]
    IN  updatePermPreview(syncOctalToPermChecks(p0, octalStr), octalStr)

\* ---------------------------------------------------------------- terminal
\* TerminalManager.sessionId of session id's terminal manager: init sets it
\* with the terminal, destroy clears both.
sessionIdOf(s, id) == IF s.terminal[id] THEN id ELSE Null

\* TerminalManager.destroy(): the observer is disconnected, the terminal is
\* disposed, and terminal, fitAddon and sessionId become null.
destroy(s, id) == [s EXCEPT !.terminal[id] = FALSE]

\* The callbacks init gives to terminal.onData (kind ssh_write) and
\* terminal.onResize (kind ssh_resize), up to their await on the dynamic
\* import.
onTerminalEvent(s, id, kind) ==
    IF sessionIdOf(s, id) = Null
    THEN s
    ELSE [s EXCEPT !.pendingInput = @ (+) SetToBag({[kind |-> kind, tm |-> id]})]

\* The callbacks after the import: the request is invoked with the
\* sessionId the terminal manager has now.
onTerminalEventInvoke(s, t) ==
    [s EXCEPT !.pendingInput = @ (-) SetToBag({t})]

\* TerminalManager.fit(): fitAddon.fit() when there is a fit addon.  init
\* creates the addon with the terminal and destroy drops both.
fit(s, id) ==
    IF s.terminal[id]
    THEN [s EXCEPT !.fit = @ \cup {id}]
    ELSE s

\* The container of session id has a box on the screen.
OnScreen(s, id) ==
    /\ s.mounted[id]
    /\ s.display[id] = "block"
    /\ s.terminalsContainer = "block"

\* The callback of the ResizeObserver that init puts on the container, for
\* every container whose box changes with the window; destroy disconnects
\* the observer.
resizeObservers(s) ==
    [s EXCEPT !.fit = @ \cup {i \in Ids : OnScreen(s, i) /\ s.terminal[i]}]

\* The listener of the window's resize event.
windowResizeListener(s) ==
    IF InRegistry(s.sessions, s.currentSessionId)
    THEN fit(s, s.currentSessionId)
    ELSE s

\* -------------------------------------------------------------- status bar
\* The message of the status bar: its fixed text, and the session whose name
\* or the error whose text it carries.
Message(text, id, err) == [text |-> text, id |-> id, err |-> err]

\* App.setStatus(status, message)
setStatus(s, kind, message) ==
    [s EXCEPT !.status = [kind |-> kind, message |-> message]]

\* ------------------------------------------------------------ file manager
\* getState as it would be if it reported the root whatever the path is.
getState_Root(s) == "/"

\* FileManager.getState(): the path is the part of the snapshot the model keeps.
getState(s) == s.currentPath

\* FileManager.loadDirectory(path), up to its first await (the dynamic
\* import): nothing is asked of the backend yet.  The suspended call holds
\* its path; sid notes the session that passed the guard, which the code
\* does not keep.
loadDirectory(s, path) ==
    IF s.currentSessionId = Null
    THEN s
    ELSE [s EXCEPT !.pendingFetch =
                       @ (+) SetToBag({[stage |-> "import",
                                        sid |-> s.currentSessionId,
                                        path |-> path]})]

\* loadDirectory after the import: sftp_list is invoked with the session id
\* that is current now.
loadDirectoryInvoke(s, t) ==
    [s EXCEPT !.pendingFetch =
                  (@ (-) SetToBag({t}))
                  (+) SetToBag({[stage |-> "list", sid |-> s.currentSessionId,
                                 path |-> t.path]})]

\* loadDirectory as it would be if it took the requested path before it knew
\* how the fetch ended.
loadDirectoryResume_PathFirst(s, t, outcome) ==
    LET s1 == [s EXCEPT !.pendingFetch = @ (-) SetToBag({t}),
                        !.currentPath = t.path]
    IN  IF outcome = "ok"
        THEN [s1 EXCEPT !.files = [sid |-> t.sid, path |-> t.path]]
        ELSE s1

\* loadDirectory after sftp_list: a listing is stored and rendered and the
\* path becomes the requested one; a rejection only shows the error.
loadDirectoryResume(s, t, outcome) ==
    LET s1 == [s EXCEPT !.pendingFetch = @ (-) SetToBag({t})]
    IN  IF outcome = "ok"
        THEN [s1 EXCEPT !.files = [sid |-> t.sid, path |-> t.path],
                        !.currentPath = t.path]
        ELSE s1

\* FileManager.setState(state, sessionId): currentPath = state.path || '/',
\* then the listing is fetched again at that path.
setState(s, state, sessionId) ==
    LET s1 == [s EXCEPT !.currentPath = state]
    IN  IF s1.currentSessionId = sessionId
        THEN loadDirectory(s1, s1.currentPath)
        ELSE s1

\* FileManager.navigateUp(): with the two directories of Paths the parent is
\* the root.
navigateUp(s) ==
    IF s.currentPath = "/" THEN s ELSE loadDirectory(s, "/")

\* FileManager.clear()
clear(s) == [s EXCEPT !.currentPath = "/", !.files = NoFiles]

\* The page as it is when the file manager holds the listing of the active
\* session at path.
WithListing(s, path) ==
    [s EXCEPT !.currentPath = path,
              !.files = [sid |-> s.currentSessionId, path |-> path]]

\* ------------------------------------------------------------ App methods
\* The tabs updateTabsUI appends to the emptied strip: one per session in
\* registry order, of class active when the session's id is currentSessionId.
renderTabs(s) ==
    [k \in 1..Len(s.sessions) |->
        [id |-> s.sessions[k],
         active |-> s.sessions[k] = s.currentSessionId]]

\* updateTabsUI as it would be if it gave the class active to the last tab.
updateTabsUI_LastActive(s) ==
    LET strip == [k \in 1..Len(s.sessions) |->
                     [id |-> s.sessions[k], active |-> k = Len(s.sessions)]]
    IN  IF Len(s.sessions) = 0
        THEN [s EXCEPT !.tabs = strip,
                       !.placeholder = "flex", !.terminalsContainer = "none"]
        ELSE [s EXCEPT !.tabs = strip,
                       !.placeholder = "none", !.terminalsContainer = "block"]

\* App.updateTabsUI(): the strip is rendered anew, then the placeholder and
\* the terminals container are toggled on sessions.length.
updateTabsUI(s) ==
    IF Len(s.sessions) = 0
    THEN [s EXCEPT !.tabs = renderTabs(s),
                   !.placeholder = "flex", !.terminalsContainer = "none"]
    ELSE [s EXCEPT !.tabs = renderTabs(s),
                   !.placeholder = "none", !.terminalsContainer = "block"]

\* handleDisconnect as it would be if it left the file manager as it was.
handleDisconnect_KeepBrowser(s) ==
    LET s1 == setStatus([s EXCEPT !.currentSessionId = Null],
                        "disconnected", Message("Disconnected", Null, ""))
    IN  [s1 EXCEPT !.placeholder = "flex", !.disBtnDisabled = TRUE]

\* App.handleDisconnect()
handleDisconnect(s) ==
    LET s1 == setStatus([s EXCEPT !.currentSessionId = Null],
                        "disconnected", Message("Disconnected", Null, ""))
    IN  clear([s1 EXCEPT !.placeholder = "flex",
                         !.disBtnDisabled = TRUE])

\* switchSession as it would be without its early return for a session that
\* is not in the registry.
switchSession_Unchecked(s, sessionId) ==
    LET old == s.currentSessionId
        s1 == IF InRegistry(s.sessions, old)
              THEN [s EXCEPT !.display[old] = "none",
                             !.fileManagerState[old] = getState(s)]
              ELSE s
        s2 == [s1 EXCEPT !.currentSessionId = sessionId,
                         !.display[sessionId] = "block"]
        s3 == setState(s2, s2.fileManagerState[sessionId], sessionId)
        s4 == setStatus(s3, "connected",
                        Message("Connected to", sessionId, ""))
    IN  updateTabsUI(s4)

\* App.switchSession(sessionId)
switchSession(s, sessionId) ==
    IF ~InRegistry(s.sessions, sessionId)
    THEN s
    ELSE LET old == s.currentSessionId
             \* oldSession = sessions.find(s => s.id === currentSessionId)
             s1 == IF InRegistry(s.sessions, old)
                   THEN [s EXCEPT !.display[old] = "none",
                                  !.fileManagerState[old] = getState(s)]
                   ELSE s
             s2 == [s1 EXCEPT !.currentSessionId = sessionId,
                              !.display[sessionId] = "block"]
             s3 == setState(s2, s2.fileManagerState[sessionId], sessionId)
             s4 == setStatus(s3, "connected",
                             Message("Connected to", sessionId, ""))
             s5 == updateTabsUI(s4)
         IN  IF s5.terminal[sessionId]
             THEN fit([s5 EXCEPT !.focus = sessionId], sessionId)
             ELSE s5

\* App.loadInitialFiles(sessionId), up to its await on sftp_get_home.
loadInitialFiles(s, sessionId) ==
    [s EXCEPT !.pendingHome = @ \cup {sessionId}]

\* loadInitialFiles after sftp_get_home: the home directory is loaded when
\* the session is the active one and stored in its record otherwise; after a
\* rejection the root is loaded when the session is the active one.
loadInitialFilesResume(s, sessionId, outcome) ==
    LET s1 == [s EXCEPT !.pendingHome = @ \ {sessionId}]
    IN  IF outcome = "ok"
        THEN IF s1.currentSessionId = sessionId
             THEN loadDirectory(s1, HomeDir)
             ELSE IF InRegistry(s1.sessions, sessionId)
                  THEN [s1 EXCEPT !.fileManagerState[sessionId] = HomeDir]
                  ELSE s1
        ELSE IF s1.currentSessionId = sessionId
             THEN loadDirectory(s1, "/")
             ELSE s1

\* addSession as it would be if the new record went to the front of the registry.
addSession_Prepend(s, sessionId) ==
    LET s1 == [s EXCEPT !.mounted[sessionId] = TRUE,
                        !.terminal[sessionId] = TRUE,
                        !.fileManagerState[sessionId] = "/",
                        !.sessions = <<sessionId>> \o s.sessions]
        s2 == updateTabsUI(switchSession(s1, sessionId))
    IN  loadInitialFiles([s2 EXCEPT !.disBtnDisabled = FALSE], sessionId)

\* App.addSession(sessionId, name)
addSession(s, sessionId) ==
    LET s1 == [s EXCEPT !.mounted[sessionId] = TRUE,
                        !.terminal[sessionId] = TRUE,
                        !.fileManagerState[sessionId] = "/",
                        !.sessions = Append(s.sessions, sessionId)]
        s2 == updateTabsUI(switchSession(s1, sessionId))
    IN  loadInitialFiles([s2 EXCEPT !.disBtnDisabled = FALSE], sessionId)

\* App.connect(id) up to its await on ssh_connect.
connectBegin(s) ==
    setStatus(s, "connecting", Message("Connecting to", Null, ""))

\* App.connect after ssh_connect resolved with sessionId.  The function ends
\* without a return statement: its promise resolves with undefined (Null).
connectResolved(s, sessionId) ==
    LET s1 == setStatus(s, "connected", Message("Connected to", Null, ""))
        s2 == addSession(s1, sessionId)
    IN  [s2 EXCEPT !.returned = [how |-> "resolved", value |-> Null]]

\* The catch block of connect as it would be if it only logged the error.
connectRejected_LogOnly(s, error) ==
    [s EXCEPT !.returned = [how |-> "resolved", value |-> Null]]

\* App.connect after ssh_connect rejected with error: the catch block sets
\* the status and logs, and the promise of connect resolves with undefined.
connectRejected(s, error) ==
    LET s1 == setStatus(s, "error", Message("Connection failed", Null, error))
    IN  [s1 EXCEPT !.returned = [how |-> "resolved", value |-> Null]]

\* TerminalManager.writeData(data) of session id's terminal manager: without
\* a terminal (before init, after destroy) the chunk is dropped.
writeData(s, id, data) ==
    IF s.terminal[id]
    THEN [s EXCEPT !.written[id] = Append(@, data)]
    ELSE s

\* The ssh-data listener as it would be if it wrote to the terminal named by
\* the event without looking the session up in the registry.
sshDataListener_NoLookup(s, sessionId, data) ==
    [s EXCEPT !.written[sessionId] = Append(@, data)]

\* listen('ssh-data').  Every record carries a terminal manager.
sshDataListener(s, sessionId, data) ==
    IF InRegistry(s.sessions, sessionId)
    THEN writeData(s, sessionId, data)
    ELSE s

\* The ssh-error listener as it would be if it reported every session's error.
sshErrorListener_Always(s, sessionId, error) ==
    setStatus(s, "error", Message("Error", Null, error))

\* listen('ssh-error')
sshErrorListener(s, sessionId, error) ==
    IF sessionId = s.currentSessionId
    THEN setStatus(s, "error", Message("Error", Null, error))
    ELSE s

\* App.closeSession(sessionId), the part before the await: the position and
\* the session object are read once, here.  No call is started for an id that
\* is not in the registry.
closeSessionBegin(seq, sessionId) ==
    IF FindIndex(seq, sessionId) = -1
    THEN EmptyBag
    ELSE SetToBag({[id |-> sessionId,
                    sessionIndex |-> FindIndex(seq, sessionId)]})

\* App.closeSession, the front-end cleanup after the await: the terminal and
\* the container of the session object read before the await, and the
\* registry entry at the position read before the await.
closeSessionCleanup(s, t) ==
    [destroy(s, t.id) EXCEPT !.mounted[t.id] = FALSE,
                             !.sessions = Splice(s.sessions, t.sessionIndex)]

\* closeSession as it would be if the next tab were activated only from the
\* empty state: after a removal the active pointer is left as it was.
closeSessionNext_KeepPointer(s, t) ==
    IF Len(s.sessions) > 0
    THEN s
    ELSE updateTabsUI(handleDisconnect([s EXCEPT !.currentSessionId = Null]))

\* App.closeSession, the choice of the next tab after the cleanup.
\* sessions[Math.max(0, sessionIndex - 1)] is undefined past the end of the
\* array, and reading its id throws.
closeSessionNext(s, t) ==
    IF Len(s.sessions) > 0
    THEN LET k == Max(0, t.sessionIndex - 1)
         IN  IF k < Len(s.sessions)
             THEN switchSession(s, s.sessions[k + 1])
             ELSE [s EXCEPT !.threw = TRUE]
    ELSE updateTabsUI(handleDisconnect([s EXCEPT !.currentSessionId = Null]))

\* closeSession as it would be if the catch block returned: a rejected
\* ssh_disconnect would skip the front-end cleanup.
closeSessionResume_StopOnReject(s, t, outcome) ==
    IF outcome = "err"
    THEN s
    ELSE closeSessionNext(closeSessionCleanup(s, t), t)

\* App.closeSession, everything after the await.  The catch block only logs,
\* so a rejected ssh_disconnect (outcome "err") continues like a resolved one.
closeSessionResume(s, t, outcome) ==
    closeSessionNext(closeSessionCleanup(s, t), t)

\* ------------------------------------------------------------------- Init
\* App.constructor: no session, no active session.  The page starts on the
\* placeholder with the disconnect button disabled and the file manager at '/'.
InitPage ==
    /\ sessions = <<>>
    /\ currentSessionId = Null
    /\ created = 0
    /\ terminal = [i \in Ids |-> FALSE]
    /\ mounted = [i \in Ids |-> FALSE]
    /\ display = [i \in Ids |-> ""]
    /\ fileManagerState = [i \in Ids |-> "/"]
    /\ currentPath = "/"
    /\ placeholder = "flex"
    /\ terminalsContainer = ""
    /\ disBtnDisabled = TRUE
    /\ tabs = <<>>
    /\ pendingClose = EmptyBag
    /\ connecting = 0
    /\ last = [op |-> "init", id |-> Null, threw |-> FALSE, arg |-> "",
               fit |-> {}, focus |-> Null]
    /\ status = [kind |-> "disconnected",
                 message |-> Message("Disconnected", Null, "")]
    /\ returned = [how |-> "none", value |-> Null]
    /\ written = [i \in Ids |-> <<>>]
    /\ files = NoFiles
    /\ pendingFetch = EmptyBag
    /\ pendingHome = {}
    /\ captured = [i \in Ids |-> ""]
    /\ pendingInput = EmptyBag

\* The specifications differ in the part of the page they follow.
Init ==
    /\ InitPage
    /\ scope = "sessions"
    /\ splitPane = initSplitPane(MinWidth)
    /\ perm = showPermissionsModal(<<0>>)

InitEvents ==
    /\ InitPage
    /\ scope = "events"
    /\ splitPane = initSplitPane(MinWidth)
    /\ perm = showPermissionsModal(<<0>>)

InitData ==
    /\ InitPage
    /\ scope = "data"
    /\ splitPane = initSplitPane(MinWidth)
    /\ perm = showPermissionsModal(<<0>>)

InitFiles ==
    /\ InitPage
    /\ scope = "files"
    /\ splitPane = initSplitPane(MinWidth)
    /\ perm = showPermissionsModal(<<0>>)

InitInput ==
    /\ InitPage
    /\ scope = "input"
    /\ splitPane = initSplitPane(MinWidth)
    /\ perm = showPermissionsModal(<<0>>)

InitListing ==
    /\ InitPage
    /\ scope = "listing"
    /\ splitPane = initSplitPane(MinWidth)
    /\ perm = showPermissionsModal(<<0>>)

InitSplit ==
    /\ InitPage
    /\ scope = "split"
    /\ splitPane \in {initSplitPane(w) : w \in MinWidth..MaxWidth}
    /\ perm = showPermissionsModal(<<0>>)

\* The strings typed into the octal field: one to three digits.
OctalInputs ==
    UNION {[1..n -> 0..MaxDigit] : n \in 1..3}

\* The dialog is open for a file of mode 000 or 777 and a string has been
\* typed into the octal field; typed keeps the string.
InitPerm ==
    /\ InitPage
    /\ scope = "perm"
    /\ splitPane = initSplitPane(MinWidth)
    /\ \E mode \in {<<0>>, <<7, 7, 7>>}, str \in OctalInputs :
           perm = [showPermissionsModal(mode) EXCEPT !.octal = str] @@ [typed |-> str]

\* The handler that ran, the session id it was given, whether it ended in
\* an uncaught TypeError, and the terminals it refitted and focused.
RanWith(op, id, arg, s) ==
    last' = [op |-> op, id |-> id, threw |-> s.threw, arg |-> arg,
             fit |-> s.fit, focus |-> s.focus]

Ran(op, id, s) == RanWith(op, id, "", s)

\* The bounds of the specification.
SessionLimit ==
    CASE scope = "sessions" -> MaxSessions
      [] scope = "files" -> FileSessions
      [] scope = "input" -> InputSessions
      [] scope = "listing" -> ListSessions
      [] OTHER -> EventSessions

InFlightLimit ==
    CASE scope = "sessions" -> MaxInFlight
      [] scope = "files" -> FileInFlight
      [] scope = "input" -> InputInFlight
      [] scope = "listing" -> ListInFlight
      [] OTHER -> EventInFlight

TabIds == {tabs[k].id : k \in 1..Len(tabs)}

\* A closeSession call may be made when it starts no backend call (the id is
\* not in the registry) or when it fits in the bound on calls in flight.
CanCallClose(id) ==
    \/ FindIndex(sessions, id) = -1
    \/ BagCardinality(pendingClose) < InFlightLimit

\* ---------------------------------------------------------------- actions
\* App.connect(id) up to its await on ssh_connect.
Connect ==
    /\ created + connecting < SessionLimit
    /\ connecting' = connecting + 1
    /\ LET s == connectBegin(Page)
       IN  Commit(s) /\ Ran("connect", Null, s)
    /\ UNCHANGED <<created, pendingClose>>

\* App.connect after ssh_connect resolved with a fresh sessionId.
ConnectResolved ==
    /\ connecting > 0
    /\ created < SessionLimit
    /\ LET sessionId == created + 1
           s == connectResolved(Page, sessionId)
       IN  /\ Commit(s)
           /\ Ran("addSession", sessionId, s)
    /\ created' = created + 1
    /\ connecting' = connecting - 1
    /\ UNCHANGED pendingClose

\* App.connect after ssh_connect rejected: the catch block reports only.
ConnectRejected(error) ==
    /\ connecting > 0
    /\ connecting' = connecting - 1
    /\ LET s == connectRejected(Page, error)
       IN  Commit(s) /\ RanWith("connectFailed", Null, error, s)
    /\ UNCHANGED <<created, pendingClose>>

\* Click on a tab rendered by updateTabsUI: switchSession(session.id).
TabClick(id) ==
    /\ id \in TabIds
    /\ LET s == switchSession(Page, id)
       IN  Commit(s) /\ Ran("switchSession", id, s)
    /\ UNCHANGED <<created, pendingClose, connecting>>

\* Click on a tab's close box: closeSession(session.id) up to its await.
TabCloseClick(id) ==
    /\ id \in TabIds
    /\ CanCallClose(id)
    /\ pendingClose' = pendingClose (+) closeSessionBegin(sessions, id)
    /\ Ran("closeSession", id, Page)
    /\ UNCHANGED <<pageVars, restVars, created, connecting>>

\* Click on the toolbar's disconnect button: App.disconnect().
DisconnectClick ==
    /\ ~disBtnDisabled
    /\ currentSessionId # Null
    /\ CanCallClose(currentSessionId)
    /\ pendingClose' = pendingClose (+) closeSessionBegin(sessions, currentSessionId)
    /\ Ran("disconnect", currentSessionId, Page)
    /\ UNCHANGED <<pageVars, restVars, created, connecting>>

\* The ssh-close listener as it would be if, like the ssh-error listener, it
\* acted only for the active session.
SshCloseListener_ActiveOnly(sessionId) ==
    IF sessionId = currentSessionId
    THEN closeSessionBegin(sessions, sessionId)
    ELSE EmptyBag

\* listen('ssh-close'): the backend closed a session it had handed out.
SshCloseListener(sessionId) == closeSessionBegin(sessions, sessionId)

SshClose(id) ==
    /\ id \in 1..created
    /\ CanCallClose(id)
    /\ pendingClose' = pendingClose (+) SshCloseListener(id)
    /\ Ran("ssh-close", id, Page)
    /\ UNCHANGED <<pageVars, restVars, created, connecting>>

\* The backend answers one ssh_disconnect (outcome "ok": the promise resolves,
\* "err": it rejects) and the continuation of closeSession after its await
\* runs, as a microtask, before any other handler.
CloseSessionResume(t, outcome) ==
    /\ BagIn(t, pendingClose)
    /\ pendingClose' = pendingClose (-) SetToBag({t})
    /\ LET s == closeSessionResume(Page, t, outcome)
       IN  Commit(s) /\ Ran(IF outcome = "ok" THEN "resolved" ELSE "rejected", t.id, s)
    /\ UNCHANGED <<created, connecting>>

Next ==
    \/ Connect
    \/ ConnectResolved
    \/ \E error \in Errors : ConnectRejected(error)
    \/ \E id \in Ids : TabClick(id)
    \/ \E id \in Ids : TabCloseClick(id)
    \/ DisconnectClick
    \/ \E id \in Ids : SshClose(id)
    \/ \E t \in BagToSet(pendingClose), outcome \in {"ok", "err"} :
           CloseSessionResume(t, outcome)

Spec == Init /\ [][Next]_vars

\* An ssh-error push-event: the backend reports error for a session.
SshError(id, error) ==
    /\ LET s == sshErrorListener(Page, id, error)
       IN  Commit(s) /\ RanWith("ssh-error", id, error, s)
    /\ UNCHANGED <<created, pendingClose, connecting>>

\* A call of App.switchSession with any session id.
SwitchSessionCall(id) ==
    /\ LET s == switchSession(Page, id)
       IN  Commit(s) /\ Ran("switchSession", id, s)
    /\ UNCHANGED <<created, pendingClose, connecting>>

NextEvents ==
    \/ Next
    \/ \E id \in Ids, error \in Errors : SshError(id, error)
    \/ \E id \in Ids : SwitchSessionCall(id)

EventSpec == InitEvents /\ [][NextEvents]_vars

RECURSIVE SumLen(_, _)
SumLen(f, S) ==
    IF S = {} THEN 0
    ELSE LET i == CHOOSE j \in S : TRUE
         IN  Len(f[i]) + SumLen(f, S \ {i})

\* The chunks the backend sends are numbered in the order of their arrival;
\* a chunk that reached no terminal leaves the page as it was.
NextChunk == SumLen(written, Ids) + 1

\* An ssh-data push-event: the backend sends a chunk of output for a session.
SshData(id) ==
    /\ NextChunk <= MaxData
    /\ LET s == sshDataListener(Page, id, NextChunk)
       IN  Commit(s) /\ RanWith("ssh-data", id, "", s)
    /\ UNCHANGED <<created, pendingClose, connecting>>

NextData ==
    \/ Next
    \/ \E id \in Ids : SshData(id)

DataSpec == InitData /\ [][NextData]_vars

\* ------------------------------------------------------- the file manager
\* The dynamic import of a suspended loadDirectory call is done.
LoadDirectoryInvoke(t) ==
    /\ BagIn(t, pendingFetch)
    /\ t.stage = "import"
    /\ LET s == loadDirectoryInvoke(Page, t)
       IN  Commit(s) /\ RanWith("sftp_list", s.currentSessionId, t.path, s)
    /\ UNCHANGED <<created, pendingClose, connecting>>

\* The backend answers an sftp_list call.  A call made without a session id
\* is rejected.
LoadDirectoryResume(t, outcome) ==
    /\ BagIn(t, pendingFetch)
    /\ t.stage = "list"
    /\ t.sid = Null => outcome = "err"
    /\ LET s == loadDirectoryResume(Page, t, outcome)
       IN  Commit(s) /\ RanWith(IF outcome = "ok" THEN "listed" ELSE "listFailed",
                                t.sid, t.path, s)
    /\ UNCHANGED <<created, pendingClose, connecting>>

\* The backend answers the sftp_get_home call of loadInitialFiles(id).
LoadInitialFilesResume(id, outcome) ==
    /\ id \in pendingHome
    /\ LET s == loadInitialFilesResume(Page, id, outcome)
       IN  Commit(s) /\ RanWith(IF outcome = "ok" THEN "home" ELSE "homeFailed",
                                id, "", s)
    /\ UNCHANGED <<created, pendingClose, connecting>>

\* Click on the file manager's up button.
NavigateUpClick ==
    /\ currentPath # "/"
    /\ LET s == navigateUp(Page)
       IN  Commit(s) /\ Ran("navigateUp", currentSessionId, s)
    /\ UNCHANGED <<created, pendingClose, connecting>>

NextFiles ==
    \/ Next
    \/ \E t \in BagToSet(pendingFetch) : LoadDirectoryInvoke(t)
    \/ \E t \in BagToSet(pendingFetch), outcome \in {"ok", "err"} :
           LoadDirectoryResume(t, outcome)
    \/ \E id \in Ids, outcome \in {"ok", "err"} :
           LoadInitialFilesResume(id, outcome)
    \/ NavigateUpClick

FileSpec == InitFiles /\ [][NextFiles]_vars

\* Click on the file manager's refresh button.
RefreshClick ==
    /\ LET s == loadDirectory(Page, currentPath)
       IN  Commit(s) /\ RanWith("refresh", currentSessionId, currentPath, s)
    /\ UNCHANGED <<created, pendingClose, connecting>>

NextListing ==
    \/ Next
    \/ RefreshClick
    \/ \E t \in BagToSet(pendingFetch) : LoadDirectoryInvoke(t)
    \/ \E t \in BagToSet(pendingFetch), outcome \in {"ok", "err"} :
           LoadDirectoryResume(t, outcome)

ListingSpec == InitListing /\ [][NextListing]_vars

\* ------------------------------------------------------------ split pane
\* A mouse event of the given kind at clientX reaches its listener.
MouseEvent(op, p) ==
    /\ splitPane' = p
    /\ last' = [op |-> op, id |-> Null, threw |-> FALSE, arg |-> "",
                fit |-> {}, focus |-> Null]
    /\ UNCHANGED <<pageVars, scope, status, returned, written, files,
                   pendingFetch, pendingHome, captured, pendingInput,
                   created, pendingClose, connecting, perm>>

MouseDown(clientX) == MouseEvent("mousedown", mousedown(splitPane, clientX))

MouseMove(clientX) == MouseEvent("mousemove", mousemove(splitPane, clientX))

MouseUp == MouseEvent("mouseup", mouseup(splitPane))

NextSplit ==
    \/ \E clientX \in 0..MaxX : MouseDown(clientX)
    \/ \E clientX \in 0..MaxX : MouseMove(clientX)
    \/ MouseUp

SplitSpec == InitSplit /\ [][NextSplit]_vars

\* ------------------------------------------------------ permission dialog
PermStep(op, p) ==
    /\ perm' = p @@ [typed |-> perm.typed]
    /\ last' = [op |-> op, id |-> Null, threw |-> FALSE, arg |-> "",
                fit |-> {}, focus |-> Null]
    /\ UNCHANGED <<pageVars, scope, status, returned, written, files,
                   pendingFetch, pendingHome, captured, pendingInput,
                   created, pendingClose, connecting, splitPane>>

\* The input listener of the octal field, for the string typed.
SyncOctalToPermChecks ==
    /\ last.op = "init"
    /\ PermStep("syncOctalToPermChecks", syncOctalToPermChecks(perm, perm.octal))

\* The change listener of the checkboxes.
SyncPermChecksToOctal ==
    /\ last.op # "init"
    /\ PermStep("syncPermChecksToOctal", syncPermChecksToOctal(perm))

NextPerm ==
    \/ SyncOctalToPermChecks
    \/ SyncPermChecksToOctal

PermSpec == InitPerm /\ [][NextPerm]_vars

\* ------------------------------------------------------ terminal input
\* The terminal of session id reports input (onData) or a change of its
\* size (onResize); a disposed terminal reports nothing.
TerminalEvent(id, kind) ==
    /\ id \in 1..created
    /\ terminal[id]
    /\ LET s == onTerminalEvent(Page, id, kind)
       IN  Commit(s) /\ Ran(IF kind = "ssh_write" THEN "onData" ELSE "onResize",
                            id, s)
    /\ UNCHANGED <<created, pendingClose, connecting>>

\* The dynamic import of a suspended callback is done: the request goes to
\* the backend.  last.id is the sessionId it carries.
TerminalEventInvoke(t) ==
    /\ BagIn(t, pendingInput)
    /\ LET s == onTerminalEventInvoke(Page, t)
       IN  Commit(s) /\ Ran(t.kind, sessionIdOf(Page, t.tm), s)
    /\ UNCHANGED <<created, pendingClose, connecting>>

NextInput ==
    \/ Next
    \/ \E id \in Ids, kind \in {"ssh_write", "ssh_resize"} :
           TerminalEvent(id, kind)
    \/ \E t \in BagToSet(pendingInput) : TerminalEventInvoke(t)

InputSpec == InitInput /\ [][NextInput]_vars

\* ------------------------------------------------------- window resize
\* The window changes size: its resize listener runs, and the observers of
\* the containers on screen run in the same rendering update.
WindowResize ==
    /\ LET s == resizeObservers(windowResizeListener(Page))
       IN  Commit(s) /\ Ran("resize", currentSessionId, s)
    /\ UNCHANGED <<created, pendingClose, connecting>>

NextSurface ==
    \/ Next
    \/ WindowResize

SurfaceSpec == Init /\ [][NextSurface]_vars

\* ------------------------------------------------------------- fairness
\* Every step except the backend's answer to ssh_disconnect.
OtherStep ==
    \/ Connect
    \/ ConnectResolved
    \/ \E error \in Errors : ConnectRejected(error)
    \/ \E id \in Ids : TabClick(id)
    \/ \E id \in Ids : TabCloseClick(id)
    \/ DisconnectClick
    \/ \E id \in Ids : SshClose(id)

\* The event loop runs every handler whose event has arrived; nothing makes
\* the backend answer an ssh_disconnect.
FairSpec == Init /\ [][Next]_vars /\ WF_vars(OtherStep)

\* ------------------------------------------------------ derived notions
\* A session's container is on screen.
Visible(id) ==
    /\ mounted[id]
    /\ display[id] = "block"
    /\ terminalsContainer = "block"

\* The step is the continuation of the closeSession call t.
IsResumeOf(t) ==
    /\ BagIn(t, pendingClose)
    /\ pendingClose' = pendingClose (-) SetToBag({t})
    /\ last'.op \in {"resolved", "rejected"}

\* The registry without the record of id.
Without(seq, id) == SelectSeq(seq, LAMBDA x : x # id)

InFlight(id) == \E t \in BagToSet(pendingClose) : t.id = id

\* ---------------------------------------------------------------- claims

\* C1: in every reachable state every session container that is on screen is
\* the container of the session named by currentSessionId (so at most one is
\* on screen), and when currentSessionId is null no session container is on
\* screen and the placeholder is shown.
C1_OnlyActiveSurfaceVisible ==
    /\ \A id \in Ids : Visible(id) => id = currentSessionId
    /\ currentSessionId = Null =>
           /\ \A id \in Ids : ~Visible(id)
           /\ placeholder = "flex"

\* C2: in every reachable state a session is in the registry exactly when its
\* terminal is not disposed and its container is mounted.
C2_RecordIffSurfacesAlive ==
    \A id \in Ids :
        InRegistry(sessions, id) <=> (terminal[id] /\ mounted[id])

\* C3: between handlers currentSessionId is null or the id of a record in the
\* registry.
C3_ActivePointerInRegistry ==
    currentSessionId = Null \/ InRegistry(sessions, currentSessionId)

\* C3 witness: a closeSession continuation has just run while another
\* closeSession call is still in flight, and a session other than the closed
\* one is active.
C3_Witness ==
    /\ last.op \in {"resolved", "rejected"}
    /\ pendingClose # EmptyBag
    /\ currentSessionId # Null
    /\ currentSessionId # last.id
    /\ ~InRegistry(sessions, last.id)

\* C4: when closeSession(id) has been called twice for the same id, the
\* continuation that finds the record of id already removed removes no other
\* record and leaves the active pointer alone, so that both calls together
\* have the outcome of one.
C4_SecondCloseRemovesNothing ==
    [][\A t \in BagToSet(pendingClose) :
           (IsResumeOf(t) /\ ~InRegistry(sessions, t.id)) =>
               /\ sessions' = sessions
               /\ currentSessionId' = currentSessionId]_vars

\* C5: whatever the order in which the disconnect calls return, the
\* continuation of closeSession(X) for a session X still in the registry
\* removes the record of X and no other record.
C5_ResumeRemovesOwnRecord ==
    [][\A t \in BagToSet(pendingClose) :
           (IsResumeOf(t) /\ InRegistry(sessions, t.id)) =>
               sessions' = Without(sessions, t.id)]_vars

\* C6: when the active session, at position i of the registry, is closed and
\* other sessions remain, the session at position max(0, i-1) of the registry
\* without the closed record becomes active.
C6_ReplacementIsLeftNeighbour ==
    [][\A t \in BagToSet(pendingClose) :
           (/\ IsResumeOf(t)
            /\ t.id = currentSessionId
            /\ InRegistry(sessions, t.id)
            /\ Len(sessions) > 1) =>
               LET i == FindIndex(sessions, t.id)
                   rest == Without(sessions, t.id)
               IN  currentSessionId' = rest[Max(0, i - 1) + 1]]_vars

\* C7: closing a session that is not the active one leaves currentSessionId,
\* the containers on screen and the snapshot of every remaining session as
\* they were.
C7_BackgroundCloseKeepsActive ==
    [][\A t \in BagToSet(pendingClose) :
           (/\ IsResumeOf(t)
            /\ InRegistry(sessions, t.id)
            /\ t.id # currentSessionId) =>
               /\ currentSessionId' = currentSessionId
               /\ \A id \in Ids \ {t.id} : Visible(id)' = Visible(id)
               /\ \A id \in Ids \ {t.id} :
                      fileManagerState'[id] = fileManagerState[id]]_vars

\* C8: an ssh-close push-event for id Z does to the page what the user's
\* closeSession(Z) does: for Z in the registry one closeSession call for Z,
\* carrying Z's position, is put in flight and nothing else changes; for Z not
\* in the registry nothing changes.
C8_SshCloseIsCloseSession ==
    [][last'.op = "ssh-close" =>
           LET Z == last'.id
           IN  /\ pendingClose' = pendingClose (+) closeSessionBegin(sessions, Z)
               /\ UNCHANGED <<pageVars, restVars, created, connecting>>
               /\ ~InRegistry(sessions, Z) => pendingClose' = pendingClose]_vars

\* C8 witness: an ssh-close event for the active session has been handled and
\* its closeSession call is in flight.
C8_Witness ==
    /\ last.op = "ssh-close"
    /\ last.id = currentSessionId
    /\ InFlight(last.id)
    /\ Len(sessions) > 1

C10_CloseEventuallyRemoves ==
    \A id \in Ids :
        (InFlight(id) /\ InRegistry(sessions, id)) ~> ~InRegistry(sessions, id)

\* C14: an ssh-data event whose sessionId is the id of no record in the
\* registry changes nothing: the registry, the active pointer, every
\* terminal's content, the status bar and the rest of the page stay as they
\* were, and the listener throws nothing.
C14_UnknownIdDataIgnored ==
    [][(last'.op = "ssh-data" /\ ~InRegistry(sessions, last'.id)) =>
           /\ sshDataListener(Page, last'.id, NextChunk) = Page
           /\ UNCHANGED <<pageVars, restVars, created, pendingClose, connecting>>
           /\ ~last'.threw]_vars

\* C14 witness: with sessions open and output already on a terminal, a chunk
\* has arrived for an id that is not in the registry.
C14_Witness ==
    /\ last.op = "ssh-data"
    /\ ~InRegistry(sessions, last.id)
    /\ sessions # <<>>
    /\ \E i \in Ids : written[i] # <<>>

\* C15: an ssh-data event for a session in the registry is written to that
\* session's own terminal, whether it is the active one or not, and to no
\* other; the active pointer and the registry stay as they were.
C15_DataWrittenToOwnTerminal ==
    [][(last'.op = "ssh-data" /\ InRegistry(sessions, last'.id)) =>
           /\ written' = [written EXCEPT ![last'.id] = Append(@, NextChunk)]
           /\ UNCHANGED <<sessions, currentSessionId>>]_vars

\* C16: for every id, the chunks written to its terminal are the ssh-data
\* events delivered for that id while its record was in the registry, once
\* each and in the order of arrival: a step appends the chunk to the log of id
\* when it is such a delivery and otherwise leaves the log as it was.
C16_LogIsDeliveredChunks ==
    [][\A i \in Ids :
           written'[i] =
               IF last'.op = "ssh-data" /\ last'.id = i /\ InRegistry(sessions, i)
               THEN Append(written[i], NextChunk)
               ELSE written[i]]_vars

\* C17: an ssh-error event sets the status bar to error, with the event's
\* message, exactly when its sessionId is the id of the active session; for any
\* other sessionId the status bar stays as it was; the registry, the active
\* pointer and the rest of the page are unchanged either way.
C17_ErrorShownIffActive ==
    [][last'.op = "ssh-error" =>
           /\ status' = IF last'.id = currentSessionId
                        THEN [kind |-> "error",
                              message |-> Message("Error", Null, last'.arg)]
                        ELSE status
           /\ UNCHANGED <<pageVars, returned, written, created, pendingClose,
                          connecting>>]_vars

\* C17 witness: with two sessions open, an ssh-error event for the active one
\* has put its message on the status bar.
C17_Witness ==
    /\ last.op = "ssh-error"
    /\ last.id = currentSessionId
    /\ Len(sessions) >= 2
    /\ status = [kind |-> "error", message |-> Message("Error", Null, last.arg)]

\* C18: when ssh_connect resolves with id N, the same step appends a record
\* for N, with a fresh terminal and a fresh container, at the end of the
\* registry and makes N the active session: N's container is shown, the
\* container of the session that was active is hidden and that session's
\* file-manager snapshot is taken.  No other step adds a record.
C18_ConnectAppendsAndActivates ==
    [][/\ last'.op = "addSession" =>
              LET N == last'.id
                  old == currentSessionId
              IN  /\ ~InRegistry(sessions, N)
                  /\ ~terminal[N] /\ ~mounted[N]
                  /\ sessions' = Append(sessions, N)
                  /\ terminal'[N] /\ mounted'[N]
                  /\ currentSessionId' = N
                  /\ display'[N] = "block" /\ terminalsContainer' = "block"
                  /\ old # Null =>
                         /\ display'[old] = "none"
                         /\ fileManagerState'[old] = getState(Page)
       /\ \A i \in Ids :
              (InRegistry(sessions', i) /\ ~InRegistry(sessions, i)) =>
                  (last'.op = "addSession" /\ last'.id = i)]_vars

\* C18 witness: a second session has just been added while the first was the
\* active one.
C18_Witness ==
    /\ last.op = "addSession"
    /\ Len(sessions) >= 2
    /\ sessions[Len(sessions)] = last.id
    /\ currentSessionId = last.id
    /\ \E j \in Ids : j # last.id /\ InRegistry(sessions, j) /\ display[j] = "none"

\* C19: a failed connect creates no record: neither the call nor its catch
\* block changes the registry, the active pointer, the containers, the
\* snapshots or anything else of the session state, and the catch block puts
\* the reason of the failure on the status bar.
C19_FailedConnectOnlyReports ==
    [][/\ last'.op \in {"connect", "connectFailed"} =>
              UNCHANGED <<pageVars, written, created, pendingClose>>
       /\ last'.op = "connectFailed" =>
              status' = [kind |-> "error",
                         message |-> Message("Connection failed", Null, last'.arg)]]_vars

\* C19 witness: with a session open and active, a connect has failed and its
\* reason is on the status bar.
C19_Witness ==
    /\ last.op = "connectFailed"
    /\ currentSessionId # Null
    /\ sessions # <<>>
    /\ status.kind = "error"
    /\ status.message.err = last.arg

\* C20: connect reports its outcome to its caller: when ssh_connect resolves
\* the promise of connect resolves with the new session id, and when
\* ssh_connect rejects the promise of connect rejects.
C20_ConnectReportsOutcome ==
    [][/\ last'.op = "addSession" =>
              returned' = [how |-> "resolved", value |-> last'.id]
       /\ last'.op = "connectFailed" => returned'.how = "rejected"]_vars

\* C11: the file manager is bound to the active session only: a listing that
\* sftp_list returns for a session that is no longer the active one (it was
\* deactivated or closed while the call was in flight) is discarded, leaving
\* the listing and the path as they were, and while there is no active
\* session the file manager stays cleared.
C11_BrowserBoundToActive ==
    [][/\ (last'.op = "listed" /\ last'.id # currentSessionId) =>
              (files' = files /\ currentPath' = currentPath)
       /\ currentSessionId' = Null =>
              (files' = NoFiles /\ currentPath' = "/")]_vars

\* C12: when X, deactivated earlier, becomes the active session again after
\* another session, the file manager's path becomes the path that was
\* captured when X was deactivated, and that step issues exactly one
\* directory fetch, at that path.
C12_SwitchBackRestoresCapturedPath ==
    [][\A X \in Ids :
           (/\ currentSessionId \notin {Null, X}
            /\ currentSessionId' = X
            /\ captured[X] # "") =>
               /\ currentPath' = captured[X]
               /\ pendingFetch' =
                      pendingFetch (+) SetToBag({[stage |-> "import",
                                                  sid |-> X,
                                                  path |-> captured[X]]})]_vars

\* C13: the snapshot of a session that is in the registry and not active is
\* the file manager's path at the step that deactivated it, and no step
\* changes the snapshot of a session that stays in the background: a switch
\* from X to Y overwrites the snapshot of X only.
C13_SnapshotIsStateAtDeactivation ==
    [][\A i \in Ids :
           (InRegistry(sessions', i) /\ i # currentSessionId') =>
               fileManagerState'[i] =
                   IF currentSessionId = i
                   THEN getState(Page)
                   ELSE fileManagerState[i]]_vars

\* C21: switchSession(id) for an id that is not in the registry is a silent
\* no-op: the active pointer, the containers, the snapshots, the file
\* manager (whatever listing it holds) and the status bar stay as they were,
\* no directory fetch is issued, no terminal is focused or refitted and
\* nothing is thrown.
C21_UnknownSwitchIsNoOp ==
    [][(last'.op = "switchSession" /\ ~InRegistry(sessions, last'.id)) =>
           /\ \A path \in Paths :
                  switchSession(WithListing(Page, path), last'.id)
                      = WithListing(Page, path)
           /\ UNCHANGED <<pageVars, restVars, created, pendingClose, connecting>>
           /\ last'.fit = {} /\ last'.focus = Null
           /\ ~last'.threw]_vars

\* C21 witness: with a session open and active, switchSession has been called
\* for the id of a session that was closed before.
C21_Witness ==
    /\ last.op = "switchSession"
    /\ last.id \in 1..created
    /\ ~InRegistry(sessions, last.id)
    /\ currentSessionId # Null
    /\ sessions # <<>>

\* C22: when a session was closed while its initial-directory resolution was
\* in flight, the late completion changes nothing: neither the answer to
\* sftp_get_home nor the answer to the load of the home directory that
\* followed it re-inserts the record or changes a record, the active pointer
\* or what the file manager holds.
C22_LateInitialLoadChangesNothing ==
    [][/\ (last'.op \in {"home", "homeFailed"}
              /\ ~InRegistry(sessions, last'.id)) =>
              UNCHANGED <<pageVars, files, pendingFetch>>
       /\ (last'.op \in {"listed", "listFailed"} /\ last'.arg = HomeDir
              /\ last'.id # Null /\ ~InRegistry(sessions, last'.id)) =>
              UNCHANGED <<pageVars, files>>]_vars

\* C23: when sftp_get_home resolves for a session that is in the registry,
\* the resolved directory is stored as the path of that session's snapshot,
\* whether the session is the active one or in the background; when it
\* rejects nothing is thrown.
C23_HomeStoredInSnapshot ==
    [][/\ (last'.op = "home" /\ InRegistry(sessions, last'.id)) =>
              fileManagerState'[last'.id] = HomeDir
       /\ last'.op \in {"home", "homeFailed"} => ~last'.threw]_vars

\* C24: a size change of the window refits the terminal of the active session
\* and no other: no terminal of a session that is not the active one is
\* refitted, and while there is no active session nothing is refitted.
C24_ResizeFitsActiveOnly ==
    [][last'.op = "resize" =>
           last'.fit \subseteq ({currentSessionId} \ {Null})]_vars

\* C25: when a closeSession continuation leaves the registry empty the page
\* enters the empty state: currentSessionId is null, the placeholder is
\* shown, the disconnect button is disabled and the file manager is cleared,
\* whatever listing it held; and currentSessionId is null, the placeholder is
\* shown or the disconnect button is disabled only while the registry is
\* empty.
C25_EmptyStateIffRegistryEmpty ==
    [][/\ (last'.op \in {"resolved", "rejected"}
              /\ sessions # <<>> /\ sessions' = <<>>) =>
              /\ currentSessionId' = Null
              /\ placeholder' = "flex" /\ terminalsContainer' = "none"
              /\ disBtnDisabled'
              /\ currentPath' = "/" /\ files' = NoFiles
              /\ \A t \in BagToSet(pendingClose), path \in Paths :
                     LET s == closeSessionResume(WithListing(Page, path), t, "ok")
                     IN  s.sessions = <<>> =>
                             (s.currentPath = "/" /\ s.files = NoFiles)
       /\ (currentSessionId' = Null \/ placeholder' = "flex" \/ disBtnDisabled')
              => sessions' = <<>>]_vars

\* C25 witness: the continuation of a closeSession call has removed the last
\* of the sessions and the page is in the empty state.
C25_Witness ==
    /\ last.op \in {"resolved", "rejected"}
    /\ created >= 2
    /\ sessions = <<>>
    /\ currentSessionId = Null
    /\ placeholder = "flex"
    /\ disBtnDisabled

\* C26: the registry is an ordered sequence: a step leaves it as it was,
\* appends one new record at its end, or removes one record and keeps the
\* others in their order; no step reorders the records.
C26_RegistryOrderKept ==
    [][\/ sessions' = sessions
       \/ \E N \in Ids : ~InRegistry(sessions, N) /\ sessions' = Append(sessions, N)
       \/ /\ Len(sessions') = Len(sessions) - 1
          /\ \A i, j \in 1..Len(sessions') :
                 i < j =>
                     /\ InRegistry(sessions, sessions'[i])
                     /\ InRegistry(sessions, sessions'[j])
                     /\ FindIndex(sessions, sessions'[i])
                            < FindIndex(sessions, sessions'[j])]_vars

\* C26 witness: the middle one of three records has been removed and the
\* other two are in the registry in their order.
C26_Witness ==
    /\ last.op \in {"resolved", "rejected"}
    /\ last.id = 2
    /\ sessions = <<1, 3>>

\* C27: the ids of the records in the registry are pairwise different, and
\* adding a record whose id is already in the registry fails: addSession for
\* such an id leaves the registry as it was.
C27_IdsUniqueAddChecked ==
    /\ \A i, j \in 1..Len(sessions) : sessions[i] = sessions[j] => i = j
    /\ \A id \in Ids :
           InRegistry(sessions, id) => addSession(Page, id).sessions = sessions

\* C28: no handler and no continuation ends in an exception, in whatever
\* order connects, switches, closes and push-events interleave.
C28_NoHandlerThrows == ~last.threw

\* The continuation of a closeSession(id) call has run.
Completed(id) == id \in 1..created /\ ~terminal[id]

\* C29: a closeSession(id) call made after an earlier closeSession(id) has
\* completed, or for an id that is not in the registry, changes nothing and
\* sends no ssh_disconnect.
C29_RepeatedCloseIsNoOp ==
    [][(/\ last'.op \in {"closeSession", "ssh-close", "disconnect"}
        /\ (Completed(last'.id) \/ ~InRegistry(sessions, last'.id))) =>
           UNCHANGED <<pageVars, restVars, pendingClose, created, connecting>>]_vars

\* C30: every switchSession that finds its session (called from a tab, from
\* addSession or from a continuation of closeSession) ends with the status
\* bar showing that session's label and with that session's terminal focused
\* and refitted.
C30_SwitchEndsWithStatusFocusFit ==
    [][(/\ ~last'.threw
        /\ \/ last'.op = "switchSession" /\ InRegistry(sessions, last'.id)
           \/ last'.op = "addSession"
           \/ last'.op \in {"resolved", "rejected"} /\ sessions' # <<>>) =>
           LET X == currentSessionId'
           IN  /\ status' = [kind |-> "connected",
                             message |-> Message("Connected to", X, "")]
               /\ last'.focus = X
               /\ X \in last'.fit]_vars

\* C31: the sftp_list request of a loadDirectory call carries the id of the
\* session that was active when loadDirectory was called, whatever happened
\* while the call was suspended; it is never another session's id and never
\* null.
C31_FetchUsesCallersSession ==
    [][last'.op = "sftp_list" =>
           \E t \in BagToSet(pendingFetch) :
               /\ t.stage = "import"
               /\ t.path = last'.arg
               /\ CopiesIn(t, pendingFetch') < CopiesIn(t, pendingFetch)
               /\ last'.id = t.sid]_vars

\* C32: after every completed connect, switchSession or closeSession the tab
\* strip has one tab per session of the registry, in registry order, and the
\* tabs marked active are exactly those of currentSessionId: one tab when
\* the registry has sessions, none when it is empty.
C32_TabStripMirrorsRegistry ==
    (last.op \in {"addSession", "connectFailed", "switchSession",
                  "resolved", "rejected"} /\ ~last.threw) =>
        /\ Len(tabs) = Len(sessions)
        /\ \A k \in 1..Len(tabs) :
               /\ tabs[k].id = sessions[k]
               /\ tabs[k].active <=> (sessions[k] = currentSessionId)
        /\ Cardinality({k \in 1..Len(tabs) : tabs[k].active}) =
               (IF sessions = <<>> THEN 0 ELSE 1)

C32_Witness ==
    /\ last.op = "switchSession"
    /\ Len(sessions) = 2
    /\ pendingClose # EmptyBag
    /\ tabs[1].active
    /\ ~tabs[2].active

\* The backend holds an open connection for id: ssh_connect has produced the
\* id, as the next one when its answer is still on the way to the page, and
\* no closeSession has been called for it.
Connected(id) ==
    \/ id \in 1..created /\ terminal[id] /\ ~InFlight(id)
    \/ id = created + 1 /\ connecting > 0

\* C33: every ssh-data event for a connected session is written to that
\* session's terminal, also when it arrives before the continuation of
\* connect has put the session's record into the registry.  The listener
\* keeps no event for later, so a chunk is written in the step that handles
\* its event or never.
C33_NoOutputLost ==
    [][(last'.op = "ssh-data" /\ Connected(last'.id)) =>
           written'[last'.id] = Append(written[last'.id], NextChunk)]_vars

\* C34: switchSession(id) for the id that is already currentSessionId leaves
\* the registry, the pointer and what is on screen as they were, and ends
\* with that session's snapshot path equal to the file manager's path, which
\* is the path it had before, whichever path that is.
C34_SwitchToActiveKeepsState ==
    [][(/\ last'.op = "switchSession"
        /\ last'.id = currentSessionId
        /\ InRegistry(sessions, last'.id)) =>
           /\ sessions' = sessions
           /\ currentSessionId' = currentSessionId
           /\ mounted' = mounted
           /\ display' = display
           /\ terminalsContainer' = terminalsContainer
           /\ placeholder' = placeholder
           /\ fileManagerState'[last'.id] = currentPath'
           /\ currentPath' = currentPath
           /\ \A path \in Paths :
                  LET s == switchSession(WithListing(Page, path), last'.id)
                  IN  /\ s.currentPath = path
                      /\ s.fileManagerState[last'.id] = path
                      /\ switchSession(s, last'.id).sessions = s.sessions
                      /\ switchSession(s, last'.id).currentSessionId =
                             s.currentSessionId
                      /\ switchSession(s, last'.id).display = s.display]_vars

\* Session 1 is the only session there has been, so the switch to it was a
\* switch to the active session.
C34_Witness ==
    /\ last.op = "switchSession"
    /\ last.id = 1
    /\ created = 1
    /\ sessions = <<1>>
    /\ currentSessionId = 1
    /\ display[1] = "block"

\* The suspended callback whose continuation the step is.
SentBy(t) ==
    /\ t.kind = last'.op
    /\ CopiesIn(t, pendingInput') < CopiesIn(t, pendingInput)

\* C35: a second destroy changes nothing, writeData of a destroyed terminal
\* manager changes nothing, and a destroyed terminal manager sends no
\* ssh_write and no ssh_resize request.
C35_DestroyedManagerIsInert ==
    [][/\ \A id \in Ids :
              /\ destroy(destroy(Page, id), id) = destroy(Page, id)
              /\ writeData(destroy(Page, id), id, NextChunk) = destroy(Page, id)
              /\ onTerminalEvent(destroy(Page, id), id, "ssh_write") =
                     destroy(Page, id)
       /\ last'.op \in {"ssh_write", "ssh_resize"} =>
              \A t \in BagToSet(pendingInput) : SentBy(t) => terminal[t.tm]]_vars

\* C36: every ssh_write and ssh_resize request carries the session id of the
\* terminal whose callback sends it, whichever session is active.
C36_RequestCarriesOwnId ==
    [][last'.op \in {"ssh_write", "ssh_resize"} =>
           \A t \in BagToSet(pendingInput) : SentBy(t) => last'.id = t.tm]_vars

C38_WidthChangesOnlyInDrag ==
    [][/\ splitPane'.width # splitPane.width =>
              (last'.op = "mousemove" /\ splitPane.isResizing)
       /\ (last'.op = "mousemove" /\ splitPane.isResizing) =>
              (splitPane'.width >= MinWidth /\ splitPane'.width <= MaxWidth)
       /\ (last'.op = "mousemove" /\ ~splitPane.isResizing) =>
              splitPane' = splitPane
       /\ last'.op = "mousedown" => splitPane'.isResizing
       /\ last'.op = "mouseup" => ~splitPane'.isResizing]_vars

\* A drag that began at the least width has reached the greatest.
C38_Witness ==
    /\ last.op = "mousemove"
    /\ splitPane.isResizing
    /\ splitPane.startWidth = MinWidth
    /\ splitPane.width = MaxWidth

\* The letters the preview shows for the digit n, spelled out.
Letters(n) ==
    <<IF n \in {4, 5, 6, 7} THEN "r" ELSE "-",
      IF n \in {2, 3, 6, 7} THEN "w" ELSE "-",
      IF n \in {1, 3, 5, 7} THEN "x" ELSE "-">>

\* The string typed is three octal digits.
ThreeOctalDigits(str) == Len(str) = 3 /\ \A k \in 1..3 : str[k] \in 0..7

\* C39: for a string s of three octal digits, syncOctalToPermChecks(s) sets
\* the checkboxes and the preview to the rwx letters of s, and
\* syncPermChecksToOctal() after it puts s back into the octal field and
\* shows the same preview.
C39_OctalRoundTrip ==
    ThreeOctalDigits(perm.typed) =>
        /\ last.op \in {"syncOctalToPermChecks", "syncPermChecksToOctal"} =>
               /\ perm.preview = Letters(perm.typed[1]) \o Letters(perm.typed[2])
                                     \o Letters(perm.typed[3])
               /\ \A k \in 1..9 : perm.checks[k] <=> perm.preview[k] # "-"
        /\ last.op = "syncPermChecksToOctal" => perm.octal = perm.typed

C39_Witness ==
    /\ last.op = "syncPermChecksToOctal"
    /\ perm.typed = <<0, 6, 4>>
    /\ perm.octal = <<0, 6, 4>>
    /\ perm.preview = <<"-", "-", "-", "r", "w", "-", "r", "-", "-">>

====
